---- MODULE Spec2Model ----
(***************************************************************************)
(* Order intake backend of server.js: photo upload, Stripe checkout,       *)
(* webhook order materialisation, admin listing and status update.         *)
(*                                                                         *)
(* Node runs the handlers on one thread: a handler runs without            *)
(* interruption from one await to the next, and handlers of different      *)
(* requests interleave at their await points (db.write, sendMail, the      *)
(* Stripe calls).  Every action below is one such run-to-next-await step.  *)
(*                                                                         *)
(* JavaScript objects are functions from field names to values; a field    *)
(* whose value is undefined (or NaN) is left out of the DOMAIN, which is   *)
(* also how JSON.stringify writes it to db.json.                           *)
(***************************************************************************)
EXTENDS Integers, Sequences, FiniteSets, Bags, TLC

VARIABLES
    uploads,    \* db.data.uploads: sequence of upload records
    orders,     \* db.data.orders: the array, as a sequence of object references
    heap,       \* the Order objects, by reference (heap[ref])
    disk,       \* content of db.json after the last completed db.write()
    writeQ,     \* db.write() calls not yet completed, oldest first
    sessions,   \* the processor's checkout sessions opened by create-checkout
    intents,    \* history: the request body that opened each session
    outbox,     \* history: the mails handed to transporter.sendMail, as a bag
    frames,     \* the handlers in flight, by slot
    last,       \* the request that finished most recently, with its response
    served,     \* number of requests received
    nextUuid,   \* uuidv4(): the next fresh identifier
    now,        \* new Date(): the last reading of the clock
    alive       \* FALSE once an unhandled rejection has ended the process

vars == <<uploads, orders, heap, disk, writeQ, sessions, intents, outbox,
          frames, last, served, nextUuid, now, alive>>

----------------------------------------------------------------------------
(* Bounds *)

\* requests the server receives in one run
MaxRequests == 2
\* the clock reads 0..MaxClock
MaxClock == 1
\* largest quantity a client asks for (two digits, so that toString and
\* parseInt handle more than one character)
MaxQuantity == 12

----------------------------------------------------------------------------
(* Product configuration, server.js:70-80 *)

PRODUCTS ==
    [digital |-> [price |-> 7900, name |-> "Digital Only", shippingRequired |-> FALSE],
     print   |-> [price |-> 18900, name |-> "Fine-Art Print", shippingRequired |-> TRUE],
     framed  |-> [price |-> 39900, name |-> "Framed Edition", shippingRequired |-> TRUE]]

VIBES ==
    [homeAlone |-> "Home Alone", elf |-> "Elf", vacation |-> "Christmas Vacation"]

\* PRODUCTS and VIBES are plain object literals: a lookup obj[key] also finds
\* the members every object inherits from Object.prototype.
ObjectPrototypeKeys == {"constructor", "toString", "valueOf", "hasOwnProperty"}

\* obj[key] is truthy
Lookup(obj, key) == key \in DOMAIN obj \/ key \in ObjectPrototypeKeys

----------------------------------------------------------------------------
(* JavaScript helpers *)

Has(o, k) == k \in DOMAIN o

\* !x is false: the field holds a non-empty string
TruthyStr(o, k) == Has(o, k) /\ o[k] # ""

\* !x is false: the field holds a number other than 0
TruthyNum(o, k) == Has(o, k) /\ o[k] # 0

\* x || ''
OrEmpty(o, k) == IF TruthyStr(o, k) THEN o[k] ELSE ""

\* { k: src[sk] }, or {} when src[sk] is undefined
Field(k, src, sk) == IF Has(src, sk) THEN k :> src[sk] ELSE <<>>

Digits == <<"0", "1", "2", "3", "4", "5", "6", "7", "8", "9">>

IsDigit(c) == \E d \in 1..10 : Digits[d] = c

DigitValue(c) == (CHOOSE d \in 1..10 : Digits[d] = c) - 1

RECURSIVE NatToString(_)
NatToString(n) ==
    IF n < 10 THEN <<Digits[n + 1]>>
    ELSE Append(NatToString(n \div 10), Digits[(n % 10) + 1])

\* Number.prototype.toString() of an integer, as its sequence of characters
NumberToString(n) == IF n < 0 THEN <<"-">> \o NatToString(-n) ELSE NatToString(n)

RECURSIVE DigitPrefix(_)
DigitPrefix(s) ==
    IF s = <<>> \/ ~IsDigit(Head(s)) THEN <<>>
    ELSE <<Head(s)>> \o DigitPrefix(Tail(s))

RECURSIVE DigitsValue(_)
DigitsValue(s) ==
    IF s = <<>> THEN 0
    ELSE 10 * DigitsValue(SubSeq(s, 1, Len(s) - 1)) + DigitValue(s[Len(s)])

ParseIntSign(s) == IF s # <<>> /\ Head(s) = "-" THEN -1 ELSE 1

ParseIntBody(s) ==
    DigitPrefix(IF s # <<>> /\ Head(s) \in {"-", "+"} THEN Tail(s) ELSE s)

\* parseInt(s) is NaN: no digit follows the optional sign
ParseIntIsNaN(s) == ParseIntBody(s) = <<>>

\* variant: only the first digit is read
ParseIntOneDigit(s) == ParseIntSign(s) * DigitValue(Head(ParseIntBody(s)))

\* parseInt(s): optional sign, then the longest run of decimal digits
ParseInt(s) == ParseIntSign(s) * DigitsValue(ParseIntBody(s))

----------------------------------------------------------------------------
(* The store and the request frames *)

EmptyObject == [k \in {} |-> k]

\* a request that has just arrived
NewFrame(op, input) ==
    [op |-> op, in |-> input, pc |-> "start", ref |-> 0, mailFailed |-> FALSE,
     resp |-> 0, out |-> EmptyObject]

\* res.status(code).json(...) / res.json(...): the handler is finished
Respond(fr, code) == [fr EXCEPT !.pc = "done", !.resp = code]

\* an exception leaves an async handler that has no try/catch: Express 4 does
\* not observe the rejected promise, no response is sent
Reject(fr) == [fr EXCEPT !.pc = "rejected"]

\* the slot a request that arrives now runs in
FreeSlot == CHOOSE f \in 1..MaxRequests :
                /\ f \notin DOMAIN frames
                /\ \A g \in 1..(f - 1) : g \in DOMAIN frames

\* a request arrives
Arrives ==
    /\ alive
    /\ served < MaxRequests
    /\ served' = served + 1

\* the handler in slot f has run to its next await, or to its end, as fr
Settle(f, fr) ==
    IF fr.pc \in {"done", "rejected"}
    THEN /\ frames' = [g \in DOMAIN frames \ {f} |-> frames[g]]
         /\ last' = fr
    ELSE /\ frames' = [g \in DOMAIN frames \cup {f} |-> IF g = f THEN fr ELSE frames[g]]
         /\ UNCHANGED last

\* JSON.stringify(db.data), taken when db.write() is called
Serialize(o, h, u) == [orders |-> [i \in 1..Len(o) |-> h[o[i]]], uploads |-> u]

\* db.write() called by frame f: lowdb serialises at once, the file is
\* replaced when the write completes; writes complete in the order called
CallWrite(f, o, h, u) == Append(writeQ, [frame |-> f, data |-> Serialize(o, h, u)])

\* variant: the handler goes on as soon as any db.write() completes
WriteCompletesAny(f) ==
    /\ alive
    /\ f \in DOMAIN frames
    /\ frames[f].pc = "write"
    /\ writeQ # <<>>

\* the handler of frame f is the one whose db.write() completes next
WriteCompletes(f) ==
    /\ alive
    /\ f \in DOMAIN frames
    /\ frames[f].pc = "write"
    /\ writeQ # <<>>
    /\ Head(writeQ).frame = f

\* new Date() reads t: time does not run backwards
ClockReads(t) == t \in now..MaxClock

\* db.data.orders.find(pred): the first element of the array o among the
\* references that satisfy pred, or 0 (undefined)
FindOrder(o, matching) ==
    IF \E i \in 1..Len(o) : o[i] \in matching
    THEN o[CHOOSE i \in 1..Len(o) :
                /\ o[i] \in matching
                /\ \A j \in 1..(i - 1) : o[j] \notin matching]
    ELSE 0

----------------------------------------------------------------------------
(* Payment processor (Stripe API), as the handlers use it *)

\* stripe.checkout.sessions.create validates its parameters: unit_amount must
\* be given and quantity must be an integer >= 1; otherwise the call throws
StripeAccepts(params) ==
    /\ Has(params, "unit_amount")
    /\ params.quantity >= 1

\* the session the processor opens; its id is the next session number.  No
\* tax, discount or shipping is configured, so amount_total is the line total.
StripeSession(id, params) ==
    [id |-> id,
     payment_intent |-> id,
     customer_email |-> params.customer_email,
     amount_total |-> params.unit_amount * params.quantity,
     metadata |-> params.metadata]

CompletedEvent(session) ==
    [type |-> "checkout.session.completed", object |-> session]

\* an event of another type; its data.object is not a checkout session
OtherEvent == [type |-> "payment_intent.succeeded", object |-> [id |-> 0]]

\* completed sessions of the account that create-checkout did not open:
\* empty metadata, metadata without the order id, and no metadata map at all
ForeignSessions ==
    { [id |-> 0, payment_intent |-> 0, customer_email |-> "eve@x",
       amount_total |-> 500, metadata |-> EmptyObject],
      [id |-> 0, payment_intent |-> 0, customer_email |-> "eve@x",
       amount_total |-> 500, metadata |-> [tier |-> "print", vibe |-> "elf"]],
      [id |-> 0, payment_intent |-> 0, customer_email |-> "eve@x",
       amount_total |-> 500] }

\* payloads a webhook request can carry
Events ==
    {CompletedEvent(sessions[s]) : s \in DOMAIN sessions}
        \cup {CompletedEvent(s) : s \in ForeignSessions}
        \cup {OtherEvent}

----------------------------------------------------------------------------
(* POST /api/create-checkout, server.js:116-184 *)

FullBody(q) ==
    [vibe |-> "elf", tier |-> "print", quantity |-> q, uploadId |-> 1,
     customerName |-> "Ann", customerEmail |-> "ann@x", customerPhone |-> "555",
     shippingAddress |-> "1 Main St", notes |-> "gift"]

MinimalBody ==
    [vibe |-> "homeAlone", tier |-> "digital", quantity |-> 1, uploadId |-> 7,
     customerName |-> "Bob", customerEmail |-> "bob@x"]

QuantityInputs == {-1, 0, 2, MaxQuantity}

\* request bodies of create-checkout
CheckoutBodies ==
    {FullBody(q) : q \in QuantityInputs}
        \cup { MinimalBody,
               [k \in DOMAIN MinimalBody \ {"customerEmail"} |-> MinimalBody[k]],
               [MinimalBody EXCEPT !.tier = "poster"],
               [MinimalBody EXCEPT !.tier = "constructor"],
               [MinimalBody EXCEPT !.vibe = "grinch"],
               [MinimalBody EXCEPT !.vibe = "constructor"] }

\* server.js:131
MissingRequired(body) ==
    \/ ~TruthyStr(body, "vibe")
    \/ ~TruthyStr(body, "tier")
    \/ ~TruthyNum(body, "quantity")
    \/ ~TruthyNum(body, "uploadId")
    \/ ~TruthyStr(body, "customerName")
    \/ ~TruthyStr(body, "customerEmail")

\* the status create-checkout answers with before it calls the processor, or 0
CheckoutValidation(body) ==
    IF MissingRequired(body) THEN 400
    ELSE IF ~Lookup(PRODUCTS, body.tier) THEN 400
    ELSE IF ~Lookup(VIBES, body.vibe) THEN 400
    ELSE 0

\* the metadata map of server.js:166-176
CheckoutMetadata(body, orderId) ==
    [orderId |-> orderId,
     vibe |-> body.vibe,
     tier |-> body.tier,
     quantity |-> NumberToString(body.quantity),
     uploadId |-> body.uploadId,
     customerName |-> body.customerName,
     customerPhone |-> OrEmpty(body, "customerPhone"),
     shippingAddress |-> OrEmpty(body, "shippingAddress"),
     notes |-> OrEmpty(body, "notes")]

\* variant: unit_amount: totalAmount
CheckoutParamsTotal(body, orderId) ==
    (IF body.tier \in DOMAIN PRODUCTS
        THEN [unit_amount |-> PRODUCTS[body.tier].price * body.quantity]
        ELSE EmptyObject)
    @@ [quantity |-> body.quantity,
        customer_email |-> body.customerEmail,
        metadata |-> CheckoutMetadata(body, orderId)]

\* the argument of stripe.checkout.sessions.create, server.js:147-177;
\* product.price is undefined when the tier is an inherited member
CheckoutParams(body, orderId) ==
    (IF body.tier \in DOMAIN PRODUCTS
        THEN [unit_amount |-> PRODUCTS[body.tier].price]
        ELSE EmptyObject)
    @@ [quantity |-> body.quantity,
        customer_email |-> body.customerEmail,
        metadata |-> CheckoutMetadata(body, orderId)]

\* the request arrives: validation, then the call to the processor
CheckoutStart(body) ==
    /\ Arrives
    /\ LET fr == NewFrame("checkout", [body |-> body])
           code == CheckoutValidation(body)
       IN IF code # 0
          THEN /\ Settle(FreeSlot, Respond(fr, code))
               /\ UNCHANGED nextUuid
          ELSE /\ Settle(FreeSlot,
                     [fr EXCEPT !.pc = "stripe",
                                !.in = [body |-> body,
                                        params |-> CheckoutParams(body, nextUuid)]])
               /\ nextUuid' = nextUuid + 1
    /\ UNCHANGED <<uploads, orders, heap, disk, writeQ, sessions, intents,
                   outbox, now, alive>>

\* variant: the order is stored when the session is opened, before payment
CheckoutStripeDoneStoresOrder(f, ok) ==
    /\ alive
    /\ f \in DOMAIN frames
    /\ frames[f].op = "checkout"
    /\ frames[f].pc = "stripe"
    /\ IF ok /\ StripeAccepts(frames[f].in.params)
       THEN /\ sessions' = Append(sessions,
                   StripeSession(Len(sessions) + 1, frames[f].in.params))
            /\ intents' = Append(intents, frames[f].in.body)
            /\ heap' = Append(heap,
                   [id |-> frames[f].in.params.metadata.orderId,
                    stripeSessionId |-> Len(sessions) + 1,
                    status |-> "pending", createdAt |-> now, updatedAt |-> now])
            /\ orders' = Append(orders, Len(heap) + 1)
            /\ Settle(f, [Respond(frames[f], 200) EXCEPT
                              !.out = [sessionId |-> Len(sessions) + 1]])
       ELSE /\ Settle(f, Respond(frames[f], 500))
            /\ UNCHANGED <<sessions, intents, heap, orders>>
    /\ UNCHANGED <<uploads, disk, writeQ, outbox, served, nextUuid, now, alive>>

\* the processor answers: a session, or an error that the catch turns into 500
CheckoutStripeDone(f, ok) ==
    /\ alive
    /\ f \in DOMAIN frames
    /\ frames[f].op = "checkout"
    /\ frames[f].pc = "stripe"
    /\ IF ok /\ StripeAccepts(frames[f].in.params)
       THEN /\ sessions' = Append(sessions,
                   StripeSession(Len(sessions) + 1, frames[f].in.params))
            /\ intents' = Append(intents, frames[f].in.body)
            /\ Settle(f, [Respond(frames[f], 200) EXCEPT
                              !.out = [sessionId |-> Len(sessions) + 1]])
       ELSE /\ Settle(f, Respond(frames[f], 500))
            /\ UNCHANGED <<sessions, intents>>
    /\ UNCHANGED <<uploads, orders, heap, disk, writeQ, outbox, served, nextUuid,
                   now, alive>>

----------------------------------------------------------------------------
(* POST /api/webhook, server.js:187-236, and the order mails, 300-381 *)

\* variant: the signature is not verified
ConstructEventNeverThrows(sigValid) == FALSE

\* stripe.webhooks.constructEvent(req.body, sig, secret) throws when the
\* signature does not match the payload, server.js:191-200; whether it matches
\* is an input of the request
ConstructEventThrows(sigValid) == ~sigValid

\* variant: every event type is handled as a completed session
IsCompletedAnyType(event) == TRUE

\* server.js:202
IsCompleted(event) == event.type = "checkout.session.completed"

\* the order record of server.js:206-223; parseInt of an undefined or
\* non-numeric quantity is NaN, which leaves the field out
BuildOrder(session, t) ==
    Field("id", session.metadata, "orderId")
    @@ Field("stripeSessionId", session, "id")
    @@ Field("stripePaymentIntent", session, "payment_intent")
    @@ Field("vibe", session.metadata, "vibe")
    @@ Field("tier", session.metadata, "tier")
    @@ (IF Has(session.metadata, "quantity")
           /\ ~ParseIntIsNaN(session.metadata.quantity)
        THEN "quantity" :> ParseInt(session.metadata.quantity)
        ELSE EmptyObject)
    @@ Field("uploadId", session.metadata, "uploadId")
    @@ Field("customerName", session.metadata, "customerName")
    @@ Field("customerEmail", session, "customer_email")
    @@ Field("customerPhone", session.metadata, "customerPhone")
    @@ Field("shippingAddress", session.metadata, "shippingAddress")
    @@ Field("notes", session.metadata, "notes")
    @@ Field("amount", session, "amount_total")
    @@ [status |-> "pending", createdAt |-> t, updatedAt |-> t]

\* sendOrderConfirmation and sendInternalNotification read
\* PRODUCTS[order.tier].name before their try block: a TypeError when the
\* lookup is undefined
OrderMailRenders(order) == Has(order, "tier") /\ Lookup(PRODUCTS, order.tier)

\* the mail built from the order's fields as they are when it is rendered
RenderMail(kind, order) == [kind |-> kind, order |-> order]

\* transporter.sendMail(mailOptions) is called
SendMail(mail) == outbox (+) SetToBag({mail})

\* the request arrives: signature check, event filter, order record, push
\* (whatever the store holds: there is no lookup by session id), db.write()
\* called
WebhookStart(sigValid, event, t) ==
    /\ Arrives
    /\ ClockReads(t)
    /\ LET f == FreeSlot
           fr == NewFrame("webhook", [sigValid |-> sigValid, event |-> event])
           session == event.object
       IN IF ConstructEventThrows(sigValid)
          THEN /\ Settle(f, Respond(fr, 400))
               /\ UNCHANGED <<orders, heap, writeQ, now, alive>>
          ELSE IF ~IsCompleted(event)
          THEN /\ Settle(f, Respond(fr, 200))
               /\ UNCHANGED <<orders, heap, writeQ, now, alive>>
          ELSE IF ~Has(session, "metadata")
          THEN /\ Settle(f, Reject(fr))
               /\ alive' = FALSE
               /\ UNCHANGED <<orders, heap, writeQ, now>>
          ELSE /\ now' = t
               /\ heap' = Append(heap, BuildOrder(session, t))
               /\ orders' = Append(orders, Len(heap) + 1)
               /\ writeQ' = CallWrite(f, orders', heap', uploads)
               /\ Settle(f, [fr EXCEPT !.pc = "write", !.ref = Len(heap) + 1])
               /\ UNCHANGED alive
    /\ UNCHANGED <<uploads, disk, sessions, intents, outbox, nextUuid>>

\* db.write() has completed: sendOrderConfirmation builds its mail and calls
\* sendMail
WebhookWritten(f) ==
    /\ WriteCompletes(f)
    /\ frames[f].op = "webhook"
    /\ disk' = Head(writeQ).data
    /\ writeQ' = Tail(writeQ)
    /\ IF OrderMailRenders(heap[frames[f].ref])
       THEN /\ outbox' = SendMail(RenderMail("confirmation", heap[frames[f].ref]))
            /\ Settle(f, [frames[f] EXCEPT !.pc = "mail1"])
            /\ UNCHANGED alive
       ELSE /\ Settle(f, Reject(frames[f]))
            /\ alive' = FALSE
            /\ UNCHANGED outbox
    /\ UNCHANGED <<uploads, orders, heap, sessions, intents, served, nextUuid, now>>

\* variant: no try/catch around sendMail
SendMailOutcomeUncaught(delivered) == IF delivered THEN "returned" ELSE "threw"

\* try { await transporter.sendMail(...) } catch { console.error }: the mail
\* function returns normally whether the mail was delivered or not
SendMailOutcome(delivered) == "returned"

\* history: the handler has seen a sendMail call fail
MailOutcome(fr, delivered) == [fr EXCEPT !.mailFailed = @ \/ ~delivered]

\* the customer mail has settled, delivered or not; an exception out of a
\* mail function would leave the handler as an unhandled rejection;
\* sendInternalNotification builds the staff mail and calls sendMail
WebhookMail1Done(f, delivered) ==
    /\ alive
    /\ f \in DOMAIN frames
    /\ frames[f].op = "webhook"
    /\ frames[f].pc = "mail1"
    /\ IF SendMailOutcome(delivered) = "returned"
          /\ OrderMailRenders(heap[frames[f].ref])
       THEN /\ outbox' = SendMail(RenderMail("internal", heap[frames[f].ref]))
            /\ Settle(f, [MailOutcome(frames[f], delivered) EXCEPT !.pc = "mail2"])
            /\ UNCHANGED alive
       ELSE /\ Settle(f, Reject(MailOutcome(frames[f], delivered)))
            /\ alive' = FALSE
            /\ UNCHANGED outbox
    /\ UNCHANGED <<uploads, orders, heap, disk, writeQ, sessions, intents,
                   served, nextUuid, now>>

\* the staff mail has settled: res.json({ received: true })
WebhookMail2Done(f, delivered) ==
    /\ alive
    /\ f \in DOMAIN frames
    /\ frames[f].op = "webhook"
    /\ frames[f].pc = "mail2"
    /\ IF SendMailOutcome(delivered) = "returned"
       THEN /\ Settle(f, Respond(MailOutcome(frames[f], delivered), 200))
            /\ UNCHANGED alive
       ELSE /\ Settle(f, Reject(MailOutcome(frames[f], delivered)))
            /\ alive' = FALSE
    /\ UNCHANGED <<uploads, orders, heap, disk, writeQ, sessions, intents, outbox,
                   served, nextUuid, now>>

----------------------------------------------------------------------------
(* POST /api/upload, server.js:85-113 *)

UploadRecord(id, t) ==
    [id |-> id, filename |-> "photo.jpg", originalName |-> "photo.jpg",
     path |-> "uploads/photo.jpg", size |-> 1, uploadedAt |-> t]

\* the request arrives, multer has stored the file (or there is none)
UploadStart(hasFile, t) ==
    /\ Arrives
    /\ ClockReads(t)
    /\ LET f == FreeSlot
           fr == NewFrame("upload", [hasFile |-> hasFile])
       IN IF ~hasFile
          THEN /\ Settle(f, Respond(fr, 400))
               /\ UNCHANGED <<uploads, writeQ, nextUuid, now>>
          ELSE /\ now' = t
               /\ uploads' = Append(uploads, UploadRecord(nextUuid, t))
               /\ nextUuid' = nextUuid + 1
               /\ writeQ' = CallWrite(f, orders, heap, uploads')
               /\ Settle(f, [fr EXCEPT !.pc = "write", !.out = [uploadId |-> nextUuid]])
    /\ UNCHANGED <<orders, heap, disk, sessions, intents, outbox, alive>>

UploadWritten(f) ==
    /\ WriteCompletes(f)
    /\ frames[f].op = "upload"
    /\ disk' = Head(writeQ).data
    /\ writeQ' = Tail(writeQ)
    /\ Settle(f, Respond(frames[f], 200))
    /\ UNCHANGED <<uploads, orders, heap, sessions, intents, outbox, served,
                   nextUuid, now, alive>>

----------------------------------------------------------------------------
(* GET /api/order/:sessionId, server.js:239-259 *)

GetOrderStart(sessionId) ==
    /\ Arrives
    /\ Settle(FreeSlot,
           [NewFrame("getOrder", [sessionId |-> sessionId]) EXCEPT !.pc = "stripe"])
    /\ UNCHANGED <<uploads, orders, heap, disk, writeQ, sessions, intents,
                   outbox, nextUuid, now, alive>>

\* sessions.retrieve has settled; it throws for a session the processor does
\* not know
GetOrderRetrieved(f, ok) ==
    /\ alive
    /\ f \in DOMAIN frames
    /\ frames[f].op = "getOrder"
    /\ frames[f].pc = "stripe"
    /\ LET sid == frames[f].in.sessionId
           ref == FindOrder(orders,
                      {r \in DOMAIN heap : /\ Has(heap[r], "stripeSessionId")
                                           /\ heap[r].stripeSessionId = sid})
       IN Settle(f,
              IF ~ok \/ sid \notin DOMAIN sessions THEN Respond(frames[f], 500)
              ELSE IF ref = 0 THEN Respond(frames[f], 404)
              ELSE [Respond(frames[f], 200) EXCEPT !.ref = ref, !.out = heap[ref]])
    /\ UNCHANGED <<uploads, orders, heap, disk, writeQ, sessions, intents,
                   outbox, served, nextUuid, now, alive>>

----------------------------------------------------------------------------
(* GET /api/admin/orders, server.js:262-273 *)

\* Array.prototype.sort with (a, b) => new Date(b.createdAt) - new Date(a.createdAt):
\* newest first, stable, and in place
RECURSIVE SortNewestFirst(_, _)
SortNewestFirst(o, h) ==
    IF o = <<>> THEN <<>>
    ELSE LET rest == SortNewestFirst(SubSeq(o, 1, Len(o) - 1), h)
             x == o[Len(o)]
             p == Cardinality({i \in 1..Len(rest) :
                                  h[rest[i]].createdAt >= h[x].createdAt})
         IN SubSeq(rest, 1, p) \o <<x>> \o SubSeq(rest, p + 1, Len(rest))

ListOrders ==
    /\ Arrives
    /\ orders' = SortNewestFirst(orders, heap)
    /\ Settle(FreeSlot,
           [Respond(NewFrame("listOrders", EmptyObject), 200) EXCEPT
               !.out = [orders |-> [i \in 1..Len(orders') |-> heap[orders'[i]]]]])
    /\ UNCHANGED <<uploads, heap, disk, writeQ, sessions, intents, outbox,
                   nextUuid, now, alive>>

----------------------------------------------------------------------------
(* PATCH /api/admin/orders/:orderId, server.js:276-297, and sendStatusUpdate *)

\* the status labels of sendStatusUpdate's statusMessages, server.js:384-392
StatusLabels ==
    {"pending", "designing", "proof_ready", "approved", "printing", "shipped",
     "completed"}

\* request bodies of the status update: a label, another string, no status
PatchBodies == {[status |-> "shipped"], [status |-> "lost"], EmptyObject}

\* variant: the order is replaced by { id, status, updatedAt }
SetStatusReplaces(order, body, t) ==
    Field("status", body, "status")
    @@ [updatedAt |-> t]
    @@ [k \in DOMAIN order \cap {"id"} |-> order[k]]

\* order.status = status; order.updatedAt = new Date().toISOString()
SetStatus(order, body, t) ==
    Field("status", body, "status")
    @@ [updatedAt |-> t]
    @@ [k \in DOMAIN order \ {"status", "updatedAt"} |-> order[k]]

\* sendStatusUpdate reads order.id.substring and order.status.toUpperCase
\* before its try block: a TypeError when the status is undefined
StatusMailRenders(order) == Has(order, "id") /\ Has(order, "status")

\* variant: find(o => o.id = req.params.orderId), an assignment, is true of
\* the first order
PatchTargetFirst(orderId) == IF orders = <<>> THEN 0 ELSE orders[1]

\* db.data.orders.find(o => o.id === req.params.orderId), server.js:279
PatchTarget(orderId) ==
    FindOrder(orders, {r \in DOMAIN heap : Has(heap[r], "id") /\ heap[r].id = orderId})

\* the request arrives: lookup by id, mutation, db.write() called
PatchStart(orderId, body, t) ==
    /\ Arrives
    /\ ClockReads(t)
    /\ LET f == FreeSlot
           fr == NewFrame("patch", [orderId |-> orderId, body |-> body])
           ref == PatchTarget(orderId)
       IN IF ref = 0
          THEN /\ Settle(f, Respond(fr, 404))
               /\ UNCHANGED <<heap, writeQ, now>>
          ELSE /\ now' = t
               /\ heap' = [heap EXCEPT ![ref] = SetStatus(@, body, t)]
               /\ writeQ' = CallWrite(f, orders, heap', uploads)
               /\ Settle(f, [fr EXCEPT !.pc = "write", !.ref = ref])
    /\ UNCHANGED <<uploads, orders, disk, sessions, intents, outbox, nextUuid,
                   alive>>

\* db.write() has completed: sendStatusUpdate builds its mail from the order
\* object as it is now and calls sendMail; a TypeError reaches the handler's
\* catch
PatchWritten(f) ==
    /\ WriteCompletes(f)
    /\ frames[f].op = "patch"
    /\ disk' = Head(writeQ).data
    /\ writeQ' = Tail(writeQ)
    /\ IF StatusMailRenders(heap[frames[f].ref])
       THEN /\ outbox' = SendMail(RenderMail("status", heap[frames[f].ref]))
            /\ Settle(f, [frames[f] EXCEPT !.pc = "mail"])
       ELSE /\ Settle(f, Respond(frames[f], 500))
            /\ UNCHANGED outbox
    /\ UNCHANGED <<uploads, orders, heap, sessions, intents, served, nextUuid,
                   now, alive>>

\* the status mail has settled: res.json({ success: true, order })
PatchMailDone(f, delivered) ==
    /\ alive
    /\ f \in DOMAIN frames
    /\ frames[f].op = "patch"
    /\ frames[f].pc = "mail"
    /\ Settle(f,
           IF SendMailOutcome(delivered) = "returned"
           THEN [Respond(MailOutcome(frames[f], delivered), 200) EXCEPT
                    !.out = heap[frames[f].ref]]
           ELSE Respond(MailOutcome(frames[f], delivered), 500))
    /\ UNCHANGED <<uploads, orders, heap, disk, writeQ, sessions, intents, outbox,
                   served, nextUuid, now, alive>>

----------------------------------------------------------------------------
(* Specification *)

\* db.json does not exist: db.data ||= { orders: [], uploads: [] }, server.js:27
InitEmpty ==
    /\ uploads = <<>>
    /\ orders = <<>>
    /\ heap = <<>>
    /\ disk = Serialize(<<>>, <<>>, <<>>)
    /\ sessions = <<>>
    /\ intents = <<>>
    /\ outbox = EmptyBag
    /\ nextUuid = 1

\* db.json as an earlier run left it, server.js:26: one upload, one checkout
\* of SeedBody paid and materialised, both order mails sent
SeedBody == FullBody(2)

SeedSession == StripeSession(1, CheckoutParams(SeedBody, 2))

SeedOrder == BuildOrder(SeedSession, 0)

InitSeeded ==
    /\ uploads = <<UploadRecord(1, 0)>>
    /\ orders = <<1>>
    /\ heap = <<SeedOrder>>
    /\ disk = Serialize(<<1>>, <<SeedOrder>>, <<UploadRecord(1, 0)>>)
    /\ sessions = <<SeedSession>>
    /\ intents = <<SeedBody>>
    /\ outbox = SetToBag({RenderMail("confirmation", SeedOrder),
                           RenderMail("internal", SeedOrder)})
    /\ nextUuid = 3

Init ==
    /\ InitEmpty \/ InitSeeded
    /\ writeQ = <<>>
    /\ frames = EmptyObject
    /\ last = NewFrame("none", EmptyObject)
    /\ served = 0
    /\ now = 0
    /\ alive = TRUE

\* order identifiers a status update can name: those of the orders, and one
\* that no order has
OrderIdInputs == {heap[r].id : r \in {q \in DOMAIN heap : Has(heap[q], "id")}}
                     \cup {nextUuid}

\* session identifiers an order query can name: the processor's, and one it
\* does not know
SessionIdInputs == 1..(Len(sessions) + 1)

Next ==
    \/ \E hasFile \in BOOLEAN, t \in 0..MaxClock : UploadStart(hasFile, t)
    \/ \E f \in DOMAIN frames : UploadWritten(f)
    \/ \E body \in CheckoutBodies : CheckoutStart(body)
    \/ \E f \in DOMAIN frames, ok \in BOOLEAN : CheckoutStripeDone(f, ok)
    \/ \E sigValid \in BOOLEAN, event \in Events, t \in 0..MaxClock :
            WebhookStart(sigValid, event, t)
    \/ \E f \in DOMAIN frames : WebhookWritten(f)
    \/ \E f \in DOMAIN frames, delivered \in BOOLEAN : WebhookMail1Done(f, delivered)
    \/ \E f \in DOMAIN frames, delivered \in BOOLEAN : WebhookMail2Done(f, delivered)
    \/ \E sessionId \in SessionIdInputs : GetOrderStart(sessionId)
    \/ \E f \in DOMAIN frames, ok \in BOOLEAN : GetOrderRetrieved(f, ok)
    \/ ListOrders
    \/ \E orderId \in OrderIdInputs, body \in PatchBodies, t \in 0..MaxClock :
            PatchStart(orderId, body, t)
    \/ \E f \in DOMAIN frames : PatchWritten(f)
    \/ \E f \in DOMAIN frames, delivered \in BOOLEAN : PatchMailDone(f, delivered)

Spec == Init /\ [][Next]_vars

----------------------------------------------------------------------------
(* Vocabulary of the properties *)

\* references of the orders in db.data.orders
Stored == {orders[i] : i \in 1..Len(orders)}

\* the stored orders of payment session sid
OrdersOf(sid) ==
    {r \in Stored : Has(heap[r], "stripeSessionId") /\ heap[r].stripeSessionId = sid}

\* number of mails of a kind sent about orders of payment session sid
MailsFor(kind, sid) ==
    LET about == {m \in BagToSet(outbox) :
                     /\ m.kind = kind
                     /\ Has(m.order, "stripeSessionId")
                     /\ m.order.stripeSessionId = sid}
    IN BagCardinality([m \in about |-> outbox[m]])

\* this step receives a request
Arrival == served' = served + 1

\* the frame of the request this step receives, as the step leaves it
ArrivedFrame ==
    IF DOMAIN frames' = DOMAIN frames THEN last'
    ELSE frames'[CHOOSE f \in DOMAIN frames' : f \notin DOMAIN frames]

\* this step receives a webhook request
WebhookArrival == Arrival /\ ArrivedFrame.op = "webhook"

\* a completed session whose metadata map is absent or lacks the order
\* identifier or an intent field
MalformedSession(session) ==
    \/ ~Has(session, "metadata")
    \/ \E k \in {"orderId", "vibe", "tier", "quantity", "uploadId", "customerName"} :
          ~Has(session.metadata, k)

\* an optional field of a request body; absent reads as the empty string
Optional(body, k) == IF Has(body, k) THEN body[k] ELSE ""

\* the stored orders materialised from sessions that create-checkout opened
CheckoutOrders ==
    {r \in Stored : /\ Has(heap[r], "stripeSessionId")
                    /\ heap[r].stripeSessionId \in DOMAIN sessions}

----------------------------------------------------------------------------
(* Properties *)

\* C1: the orders collection holds at most one Order per payment-session
\* identifier, also after repeated delivery of the same completed event.
C1_OneOrderPerSession ==
    \A r1, r2 \in Stored :
        (/\ Has(heap[r1], "stripeSessionId")
         /\ Has(heap[r2], "stripeSessionId")
         /\ heap[r1].stripeSessionId = heap[r2].stripeSessionId) => r1 = r2

\* C2: for every payment session the customer confirmation and the staff
\* notification are each sent at most once, however often its completed event
\* is delivered.
C2_NotifiedAtMostOnce ==
    \A m \in BagToSet(outbox) :
        (m.kind \in {"confirmation", "internal"} /\ Has(m.order, "stripeSessionId"))
            => MailsFor(m.kind, m.order.stripeSessionId) <= 1

\* C3: two handlers working at the same time on deliveries of the same
\* completed event of a checkout session never both hold an appended Order for
\* that session.
C3_ConcurrentDeliveriesAppendOnce ==
    \A f, g \in DOMAIN frames :
        (/\ f # g
         /\ frames[f].op = "webhook"
         /\ frames[g].op = "webhook"
         /\ frames[f].in.event = frames[g].in.event
         /\ frames[f].in.event.object \in {sessions[s] : s \in DOMAIN sessions})
            => ~(frames[f].ref \in Stored /\ frames[g].ref \in Stored)

\* C4: a webhook request whose signature fails verification is answered 400
\* at once and changes nothing: no order appended or modified, no upload
\* modified, no mail sent, nothing written; and no handler ever works on an
\* event whose signature failed.
C4_BadSignatureChangesNothing ==
    [][ /\ \A f \in DOMAIN frames' :
              frames'[f].op = "webhook" => frames'[f].in.sigValid
        /\ (WebhookArrival /\ ~ArrivedFrame.in.sigValid)
              => /\ ArrivedFrame.pc = "done"
                 /\ ArrivedFrame.resp \in 400..499
                 /\ UNCHANGED <<uploads, orders, heap, disk, writeQ, outbox>> ]_vars

\* C4 witness: a well-formed completed event of a real session, badly signed,
\* has been answered 400.
C4_Witness ==
    /\ last.op = "webhook"
    /\ ~last.in.sigValid
    /\ last.in.event.type = "checkout.session.completed"
    /\ last.in.event.object \in {sessions[s] : s \in DOMAIN sessions}
    /\ last.resp = 400

\* C5: a verified event of any type other than checkout.session.completed is
\* answered 200 at once and leaves orders and uploads unchanged and sends no
\* mail.
C5_OtherEventsAcknowledged ==
    [][ /\ \A f \in DOMAIN frames' :
              frames'[f].op = "webhook"
                  => frames'[f].in.event.type = "checkout.session.completed"
        /\ (WebhookArrival /\ ArrivedFrame.in.sigValid
                /\ ArrivedFrame.in.event.type # "checkout.session.completed")
              => /\ ArrivedFrame.pc = "done"
                 /\ ArrivedFrame.resp = 200
                 /\ UNCHANGED <<uploads, orders, heap, disk, writeQ, outbox>> ]_vars

\* C5 witness: a verified payment_intent.succeeded event has been answered 200
\* by a server that holds an order.
C5_Witness ==
    /\ last.op = "webhook"
    /\ last.in.sigValid
    /\ last.in.event = OtherEvent
    /\ last.resp = 200
    /\ orders # <<>>

\* C6: a verified completed event with a malformed payload is rejected (never
\* answered 200) and has no side effect: no order appended, no mail sent.
C6_MalformedEventRejected ==
    [][ (/\ WebhookArrival
         /\ ArrivedFrame.in.sigValid
         /\ ArrivedFrame.in.event.type = "checkout.session.completed"
         /\ MalformedSession(ArrivedFrame.in.event.object))
            => /\ ArrivedFrame.pc \in {"done", "rejected"}
               /\ ArrivedFrame.resp # 200
               /\ UNCHANGED <<orders, heap, outbox>> ]_vars

\* C7: a status update naming an order identifier that no Order has is
\* answered 404 at once and leaves the store unchanged: no status or updatedAt
\* changes, no order added, nothing written, no mail sent.
C7_UnknownOrderNotFound ==
    [][ (/\ Arrival
         /\ ArrivedFrame.op = "patch"
         /\ \A r \in Stored :
               ~(Has(heap[r], "id") /\ heap[r].id = ArrivedFrame.in.orderId))
            => /\ ArrivedFrame.pc = "done"
               /\ ArrivedFrame.resp = 404
               /\ UNCHANGED <<uploads, orders, heap, disk, writeQ, outbox>> ]_vars

\* C7 witness: a status update for an unknown identifier has been answered 404
\* by a server that holds an order.
C7_Witness ==
    /\ last.op = "patch"
    /\ last.resp = 404
    /\ Has(last.in.body, "status")
    /\ Stored # {}

C9_IntentRoundTrip ==
    \A r \in CheckoutOrders :
        LET o == heap[r]
            sid == o.stripeSessionId
            body == intents[sid]
        IN /\ {"id", "vibe", "tier", "quantity", "uploadId", "customerName",
               "customerEmail", "customerPhone", "shippingAddress", "notes"}
                 \subseteq DOMAIN o
           /\ o.id = sessions[sid].metadata.orderId
           /\ o.vibe = body.vibe
           /\ o.tier = body.tier
           /\ o.quantity = body.quantity
           /\ o.uploadId = body.uploadId
           /\ o.customerName = body.customerName
           /\ o.customerEmail = body.customerEmail
           /\ o.customerPhone = Optional(body, "customerPhone")
           /\ o.shippingAddress = Optional(body, "shippingAddress")
           /\ o.notes = Optional(body, "notes")

\* C9 witness: the webhook handler has materialised and acknowledged the
\* order of a session opened in this run from a body without the optional
\* fields.
C9_Witness ==
    \E r \in CheckoutOrders :
        /\ intents[heap[r].stripeSessionId] = MinimalBody
        /\ heap[r].customerPhone = ""
        /\ last.op = "webhook"
        /\ last.resp = 200
        /\ last.ref = r

\* C10: every Order materialised from a session that create-checkout opened
\* has amount = Catalog price of its tier * its recorded quantity.
C10_AmountIsPriceTimesQuantity ==
    \A r \in CheckoutOrders :
        /\ heap[r].tier \in DOMAIN PRODUCTS
        /\ heap[r].amount = PRODUCTS[heap[r].tier].price * heap[r].quantity

\* C10 witness: an order for MaxQuantity prints has been materialised with
\* amount 18900 * MaxQuantity.
C10_Witness ==
    \E r \in CheckoutOrders :
        /\ heap[r].tier = "print"
        /\ heap[r].quantity = MaxQuantity
        /\ heap[r].amount = 18900 * MaxQuantity

\* the preconditions of create-checkout: required fields present, tier and
\* theme configured codes, quantity a positive integer
IntentValid(body) ==
    /\ {"vibe", "tier", "quantity", "uploadId", "customerName", "customerEmail"}
          \subseteq DOMAIN body
    /\ body.tier \in {"digital", "print", "framed"}
    /\ body.vibe \in {"homeAlone", "elf", "vacation"}
    /\ body.quantity >= 1

\* identifiers of the upload records in db.data.uploads
UploadIds == {uploads[i].id : i \in 1..Len(uploads)}

\* C11: a create-checkout request whose intent violates a precondition is
\* answered 400 at once and opens no payment session; every session was opened
\* from an intent that satisfies all of them.
C11_InvalidIntentRejected ==
    [][ /\ \A s \in DOMAIN intents' : IntentValid(intents'[s])
        /\ (/\ Arrival
            /\ ArrivedFrame.op = "checkout"
            /\ ~IntentValid(ArrivedFrame.in.body))
              => /\ ArrivedFrame.pc = "done"
                 /\ ArrivedFrame.resp = 400
                 /\ UNCHANGED sessions ]_vars

\* C12: every payment session, and every Order materialised from one, carries
\* the upload identifier of an UploadRecord in the uploads collection.
C12_OrdersReferenceUploads ==
    /\ \A s \in DOMAIN sessions : sessions[s].metadata.uploadId \in UploadIds
    /\ \A r \in CheckoutOrders : heap[r].uploadId \in UploadIds

\* C13: an Order is added only by the step that receives a signature-verified
\* checkout.session.completed event at the webhook, and that step adds exactly
\* one; upload, create-checkout (session opened or upstream error), order
\* query, listing and status update, and every later step of any handler,
\* leave the set and the number of Orders as they are.
C13_OrdersOnlyFromCompletedEvents ==
    [][ (\/ Stored' # Stored
         \/ Len(orders') # Len(orders)
         \/ Len(heap') # Len(heap))
            => /\ WebhookArrival
               /\ ArrivedFrame.in.sigValid
               /\ ArrivedFrame.in.event.type = "checkout.session.completed"
               /\ Len(heap') = Len(heap) + 1
               /\ orders' = Append(orders, Len(heap'))
               /\ ArrivedFrame.ref = Len(heap') ]_vars

\* C13 witness: a create-checkout request with a valid intent has ended in the
\* upstream error (500) after another request, and the store still holds just
\* the one Order it started with.
C13_Witness ==
    /\ last.op = "checkout"
    /\ last.resp = 500
    /\ StripeAccepts(last.in.params)
    /\ served = MaxRequests
    /\ orders = <<1>>
    /\ Len(heap) = 1

\* C14: no step removes an Order from the store or changes a field of an
\* Order other than status and updatedAt; an Order changes only in the step
\* that receives a status update naming its id, that step changes no other
\* Order, and no step changes or removes an UploadRecord.
C14_OrdersAppendOnly ==
    [][ /\ \A r \in Stored :
              /\ r \in Stored'
              /\ DOMAIN heap'[r] \ {"status", "updatedAt"}
                    = DOMAIN heap[r] \ {"status", "updatedAt"}
              /\ \A k \in DOMAIN heap[r] \ {"status", "updatedAt"} :
                    heap'[r][k] = heap[r][k]
        /\ \A r \in DOMAIN heap :
              heap'[r] # heap[r]
                  => /\ Arrival
                     /\ ArrivedFrame.op = "patch"
                     /\ ArrivedFrame.ref = r
                     /\ Has(heap[r], "id")
                     /\ heap[r].id = ArrivedFrame.in.orderId
        /\ Len(uploads') >= Len(uploads)
        /\ \A i \in 1..Len(uploads) : uploads'[i] = uploads[i]
        /\ (Arrival /\ ArrivedFrame.op = "patch") => uploads' = uploads ]_vars

\* C14 witness: of two stored Orders one has been set to shipped by a status
\* update answered 200 and is otherwise as it was created; the other is
\* still pending.
C14_Witness ==
    /\ last.op = "patch"
    /\ last.resp = 200
    /\ Cardinality(Stored) = 2
    /\ heap[last.ref] = [SeedOrder EXCEPT !.status = "shipped", !.updatedAt = 1]
    /\ \E r \in Stored \ {last.ref} : heap[r].status = "pending"

\* C15: in every reachable state every Order in the store has a status, and
\* it is one of the seven labels.
C15_StatusIsALabel ==
    \A r \in Stored : Has(heap[r], "status") /\ heap[r].status \in StatusLabels

\* C16: the step in which the store write of a status update completes sends
\* exactly one customer notification, and it describes the status that this
\* request's body set; a status update answered 200 returns the Order with
\* the status its body set.  (Requests whose body carries a status value.)
C16_NotificationDescribesOwnStatus ==
    [][ /\ \A f \in DOMAIN frames :
              (/\ frames[f].op = "patch"
               /\ Has(frames[f].in.body, "status")
               /\ frames[f].pc = "write"
               /\ f \in DOMAIN frames'
               /\ frames'[f].pc = "mail")
                  => \E m \in BagToSet(outbox') :
                        /\ outbox' = outbox (+) SetToBag({m})
                        /\ m.kind = "status"
                        /\ Has(m.order, "status")
                        /\ m.order.status = frames[f].in.body.status
        /\ (/\ last'.op = "patch"
            /\ last'.resp = 200
            /\ Has(last'.in.body, "status"))
              => /\ Has(last'.out, "status")
                 /\ last'.out.status = last'.in.body.status ]_vars

\* C17: db.data.orders is always in insertion order (references are handed out
\* in the order the Orders were appended), and so is the orders array of
\* every snapshot a store write holds or has persisted.
C17_InsertionOrdered ==
    /\ \A i, j \in 1..Len(orders) : i < j => orders[i] < orders[j]
    /\ \A i, j \in 1..Len(disk.orders) :
          i < j => disk.orders[i].createdAt <= disk.orders[j].createdAt

\* number of Orders of payment session sid in a snapshot of the store
PersistedOf(data, sid) ==
    Cardinality({i \in DOMAIN data.orders :
                    /\ Has(data.orders[i], "stripeSessionId")
                    /\ data.orders[i].stripeSessionId = sid})

\* C18: every step that sends a customer confirmation or a staff notification
\* is taken by a webhook handler whose Order is in the store, whose own store
\* write has completed, and whose Order (with every Order of the session
\* appended before it) is in db.json; the mail describes that Order.
C18_NotifiedAfterStored ==
    [][ \A m \in BagToSet(outbox') :
          (/\ m.kind \in {"confirmation", "internal"}
           /\ (m \notin BagToSet(outbox) \/ outbox'[m] > outbox[m]))
              => \E f \in DOMAIN frames :
                    /\ frames[f].op = "webhook"
                    /\ frames[f].pc \in {"write", "mail1"}
                    /\ frames[f].ref \in Stored
                    /\ m.order = heap[frames[f].ref]
                    /\ \A i \in 1..Len(writeQ') : writeQ'[i].frame # f
                    /\ PersistedOf(disk', m.order.stripeSessionId)
                          >= Cardinality({r \in OrdersOf(m.order.stripeSessionId) :
                                             r <= frames[f].ref}) ]_vars

\* C18 witness: the completed event of a session has been answered 200 after
\* its Order was written to db.json and both of its mails were sent.
C18_Witness ==
    /\ last.op = "webhook"
    /\ last.resp = 200
    /\ last.in.event.object.id = 0
    /\ Cardinality(OrdersOf(0)) = 1
    /\ PersistedOf(disk, 0) = 1
    /\ MailsFor("confirmation", 0) = 1
    /\ MailsFor("internal", 0) = 1

\* C19: a status update answered 404 on arrival has changed no Order and
\* written nothing; a status update that has assigned the new status and
\* called the store write never ends in an error response (404 or 500).
C19_ErrorLeavesStatusUnchanged ==
    [][ /\ (/\ Arrival
            /\ ArrivedFrame.op = "patch"
            /\ ArrivedFrame.pc = "done"
            /\ ArrivedFrame.resp \in {404, 500})
              => UNCHANGED <<heap, disk, writeQ>>
        /\ \A f \in DOMAIN frames :
              (frames[f].op = "patch" /\ f \notin DOMAIN frames')
                  => last'.resp \notin {404, 500} ]_vars

====
